---- MODULE Spec2Model ----
(***************************************************************************)
(* Model of the image transformation pipeline of dataset_new/image.py:     *)
(* img_flip, random_color_distort, impad_to_square, impad_to_multiple,     *)
(* imrescale, imnormalize, imdenormalize and random_expand.                *)
(*                                                                         *)
(* An ndarray is an array object (a record naming a storage buffer, a      *)
(* shape, a dtype and whether its width axis is read backwards) and the    *)
(* heap maps buffer ids to storage.  Pixel values are exact rationals      *)
(* <<n, d>> in lowest terms (float rounding is not modelled); the          *)
(* photometric writes of random_color_distort are kept as the list of      *)
(* writes a buffer has received (`ops`), since their real-valued results   *)
(* (random factors, cos/sin) have no finite exact form.                    *)
(***************************************************************************)
EXTENDS Integers, Sequences, FiniteSets, TLC

\* ------------------------------------------------------------------ bounds
\* Largest height and width of an input image.
MaxDim == 3
\* Input images differ by a seed that shifts their pixel values.
MaxSeed == 1
\* Largest pad_size, divisor, and edge of a rescale target box.
MaxSize == 4
\* Random ratios of random_expand are drawn on a grid of 1/RatioGrid.
RatioGrid == 2
\* Image channels: mean/std are "[3]", the luma weights and YIQ matrices are 3-wide.
Channels == 3

\* ---------------------------------------------------------------- numbers
Max(a, b) == IF a >= b THEN a ELSE b
Min(a, b) == IF a <= b THEN a ELSE b
Abs(a) == IF a < 0 THEN -a ELSE a

RECURSIVE Gcd(_, _)
Gcd(a, b) == IF b = 0 THEN a ELSE Gcd(b, a % b)

\* The rational n/d (d # 0) in lowest terms with a positive denominator.
Rat(n, d) ==
  LET g == Gcd(Abs(n), Abs(d))
      s == IF d < 0 THEN -1 ELSE 1
  IN <<(s * n) \div g, (s * d) \div g>>

RatAdd(p, q) == Rat(p[1] * q[2] + q[1] * p[2], p[2] * q[2])
RatSub(p, q) == Rat(p[1] * q[2] - q[1] * p[2], p[2] * q[2])
RatMul(p, q) == Rat(p[1] * q[1], p[2] * q[2])
RatDiv(p, q) == Rat(p[1] * q[2], p[2] * q[1])
RatLeq(p, q) == p[1] * q[2] <= q[1] * p[2]
RatMin(p, q) == IF RatLeq(p, q) THEN p ELSE q
\* Python's int() of a non-negative float: truncation.
RatInt(p) == p[1] \div p[2]

\* ----------------------------------------------------------------- arrays
ZeroPixel == [k \in 1..Channels |-> <<0, 1>>]

Array(buf, h, w, dtype, rev) ==
  [buf |-> buf, h |-> h, w |-> w, c |-> Channels, dtype |-> dtype, rev |-> rev]

NoArray == Array(0, 0, 0, "none", FALSE)

Coords(h, w) == (0..(h - 1)) \X (0..(w - 1))

\* Element [i, j, :] of array a: a view with rev reads the width axis backwards.
At(hp, a, i, j) == hp[a.buf].pix[<<i, IF a.rev THEN a.w - 1 - j ELSE j>>]

\* The contents of array a as the caller sees them.
Contents(hp, a) ==
  [pix |-> [p \in Coords(a.h, a.w) |-> At(hp, a, p[1], p[2])], ops |-> hp[a.buf].ops]

\* np.zeros(shape): fresh zero-filled storage.
Zeros(h, w) == [pix |-> [p \in Coords(h, w) |-> ZeroPixel], ops |-> <<>>]

\* Allocation: the new buffer's id is the next index of the heap.
Alloc(hp, b) == Append(hp, b)
NewId(hp) == Len(hp) + 1

\* Length of the slice lo:hi of an axis of n elements (numpy clips both ends).
SliceLen(lo, hi, n) == Max(0, Min(hi, n) - Min(lo, n))

\* numpy broadcasting of a (sh, sw, C) source into a (nr, nc, C) slice.
Broadcastable(sh, sw, nr, nc) == (sh = nr \/ sh = 1) /\ (sw = nc \/ sw = 1)

\* dst[r0:r0+nr, c0:c0+nc, ...] = src, once the shapes are known to broadcast.
SetSlice(hp, dst, r0, c0, nr, nc, src) ==
  LET old == hp[dst]
      new == [p \in DOMAIN old.pix |->
                IF /\ r0 <= p[1] /\ p[1] < r0 + nr
                   /\ c0 <= p[2] /\ p[2] < c0 + nc
                THEN At(hp, src, IF src.h = 1 THEN 0 ELSE p[1] - r0,
                                 IF src.w = 1 THEN 0 ELSE p[2] - c0)
                ELSE old.pix[p]]
  IN [hp EXCEPT ![dst] = [pix |-> new, ops |-> old.ops]]

\* What a call hands back: an array, or the exception it ended in.
Ok(a) == [kind |-> "ok", arr |-> a]
Raise(e) == [kind |-> e, arr |-> NoArray]
NoRet == [kind |-> "none", arr |-> NoArray]
NoMeta == [name |-> "none"]
NoArg == [name |-> "none"]

\* ------------------------------------------------------------------ state
VARIABLES
  pc,      \* position of the caller / of random_color_distort (source line)
  op,      \* the transform called
  arg,     \* its parameters
  img,     \* the array the caller passed in
  input,   \* what img held when the call began
  x0,      \* the raw image of the behaviour
  heap,    \* storage buffers
  cur,     \* random_color_distort's local src
  trace,   \* the sub-transforms random_color_distort has attempted
  ret,     \* what the call returned
  meta     \* the metadata returned with it (and the locals it is made of)

vars == <<pc, op, arg, img, input, x0, heap, cur, trace, ret, meta>>

\* ------------------------------------------------------------ input images
DTypes == {"uint8", "float32"}

\* Pixel values lie in 0..255 and depend on the position, so that a moved,
\* mirrored or cropped copy differs from the source.
RawPixel(h, w, seed, i, j) ==
  [k \in 1..Channels |-> <<(((i * w + j) * Channels + k + seed) * 85) % 256, 1>>]

RawImage(h, w, seed) ==
  [pix |-> [p \in Coords(h, w) |-> RawPixel(h, w, seed, p[1], p[2])], ops |-> <<>>]

Init ==
  \E h \in 1..MaxDim, w \in 1..MaxDim, seed \in 0..MaxSeed, dt \in DTypes :
    /\ pc = "ready"
    /\ op = "none"
    /\ arg = NoArg
    /\ heap = <<RawImage(h, w, seed)>>
    /\ img = Array(1, h, w, dt, FALSE)
    /\ input = RawImage(h, w, seed)
    /\ x0 = RawImage(h, w, seed)
    /\ cur = NoArray
    /\ trace = <<>>
    /\ ret = NoRet
    /\ meta = NoMeta

\* The caller's side of a completed call.
Return(name, a, r) ==
  /\ pc' = "returned"
  /\ op' = name
  /\ arg' = a
  /\ heap' = r.heap
  /\ ret' = r.ret
  /\ meta' = r.meta
  /\ UNCHANGED <<img, input, x0, cur, trace>>

\* ------------------------------------------------------------------ img_flip
\* np.fliplr(img) is img[:, ::-1]: a view of the same storage.
img_flip(hp, a) ==
  [heap |-> hp,
   ret |-> Ok([a EXCEPT !.rev = ~a.rev]),
   meta |-> NoMeta]

CallFlip ==
  /\ pc = "ready"
  /\ Return("img_flip", NoArg, img_flip(heap, img))

\* ----------------------------------------------------------- impad_to_square
\* Fault: np.ones in place of np.zeros.
PadBufferOnes(ph, pw) ==
  [pix |-> [p \in Coords(ph, pw) |-> [k \in 1..Channels |-> <<1, 1>>]], ops |-> <<>>]

\* pad = np.zeros(shape, dtype=img.dtype)
PadBuffer(ph, pw) == Zeros(ph, pw)

\* pad[:img.shape[0], :img.shape[1], ...] = img ; return pad
PadAssign(hp, a, ph, pw) ==
  LET id == NewId(hp)
      h1 == Alloc(hp, PadBuffer(ph, pw))
      nr == SliceLen(0, a.h, ph)
      nc == SliceLen(0, a.w, pw)
  IN IF Broadcastable(a.h, a.w, nr, nc)
     THEN [heap |-> SetSlice(h1, id, 0, 0, nr, nc, a),
           ret |-> Ok(Array(id, ph, pw, a.dtype, FALSE)),
           meta |-> NoMeta]
     ELSE [heap |-> h1, ret |-> Raise("ValueError"), meta |-> NoMeta]

\* Fault: the source is cropped to the canvas, pad[...] = img[:pad_size, :pad_size].
impad_to_square_crop(hp, a, pad_size) ==
  PadAssign(hp, [a EXCEPT !.h = Min(a.h, pad_size), !.w = Min(a.w, pad_size)],
            pad_size, pad_size)

impad_to_square(hp, a, pad_size) == PadAssign(hp, a, pad_size, pad_size)

\* pad_size is a positive edge length: the result is an image (H, W > 0).
CallPadToSquare ==
  /\ pc = "ready"
  /\ \E size \in 1..MaxSize :
       Return("impad_to_square", [name |-> "pad", pad_size |-> size],
              impad_to_square(heap, img, size))

\* --------------------------------------------------------- impad_to_multiple
\* Fault: n // divisor + 1, which enlarges an edge that is a multiple already.
CeilDivBug(n, d) == n \div d + 1

\* int(np.ceil(n / divisor)) for positive n and divisor.
CeilDiv(n, d) == (n + d - 1) \div d

\* Fault: an image whose edges are multiples already is handed back as it is.
impad_to_multiple_reuse(hp, a, divisor) ==
  IF a.h % divisor = 0 /\ a.w % divisor = 0
  THEN [heap |-> hp, ret |-> Ok(a), meta |-> NoMeta]
  ELSE PadAssign(hp, a, CeilDiv(a.h, divisor) * divisor, CeilDiv(a.w, divisor) * divisor)

impad_to_multiple(hp, a, divisor) ==
  PadAssign(hp, a, CeilDiv(a.h, divisor) * divisor, CeilDiv(a.w, divisor) * divisor)

CallPadToMultiple ==
  /\ pc = "ready"
  /\ \E d \in 1..MaxSize :
       Return("impad_to_multiple", [name |-> "pad", divisor |-> d],
              impad_to_multiple(heap, img, d))

\* ------------------------------------------------------------------ imrescale
\* Fault: the box read as (Hmax, Wmax) with no max/min over it.
ScaleFactorHW(h, w, scale) ==
  RatMin(Rat(scale[1], Max(h, w)), Rat(scale[2], Min(h, w)))

\* scale_factor = min(max_long_edge / max(h, w), max_short_edge / min(h, w))
ScaleFactor(h, w, scale) ==
  LET max_long_edge == Max(scale[1], scale[2])
      max_short_edge == Min(scale[1], scale[2])
  IN RatMin(Rat(max_long_edge, Max(h, w)), Rat(max_short_edge, Min(h, w)))

\* int(n * float(scale_factor) + 0.5)
NewEdge(n, sf) == RatInt(RatAdd(RatMul(<<n, 1>>, sf), <<1, 2>>))

\* cv2's source coordinate of destination index x on an axis resized from sn
\* to dn elements: (x + 0.5) * sn / dn - 0.5, clamped to the axis; the result
\* is <<left index, weight of the right neighbour>>.
SrcCoord(x, sn, dn) ==
  LET f == Rat((2 * x + 1) * sn - dn, 2 * dn)
      s == RatInt(f)
  IN IF f[1] < 0 THEN <<0, <<0, 1>>>>
     ELSE IF s >= sn - 1 THEN <<sn - 1, <<0, 1>>>>
     ELSE <<s, RatSub(f, <<s, 1>>)>>

Lerp(a, b, t) == RatAdd(RatMul(RatSub(<<1, 1>>, t), a), RatMul(t, b))

\* cv2.resize(img, (nw, nh), interpolation=cv2.INTER_LINEAR): bilinear
\* interpolation into fresh storage; an integer dtype rounds to nearest.
Resized(hp, a, nh, nw) ==
  LET val(i, j, k) ==
        LET cy == SrcCoord(i, a.h, nh)
            cx == SrcCoord(j, a.w, nw)
            y1 == Min(cy[1] + 1, a.h - 1)
            x1 == Min(cx[1] + 1, a.w - 1)
            top == Lerp(At(hp, a, cy[1], cx[1])[k], At(hp, a, cy[1], x1)[k], cx[2])
            bot == Lerp(At(hp, a, y1, cx[1])[k], At(hp, a, y1, x1)[k], cx[2])
            v == Lerp(top, bot, cy[2])
        IN IF a.dtype = "uint8" THEN <<RatInt(RatAdd(v, <<1, 2>>)), 1>> ELSE v
  IN [pix |-> [p \in Coords(nh, nw) |-> [k \in 1..Channels |-> val(p[1], p[2], k)]],
      ops |-> hp[a.buf].ops]

imrescale(hp, a, scale) ==
  LET scale_factor == ScaleFactor(a.h, a.w, scale)
      nw == NewEdge(a.w, scale_factor)
      nh == NewEdge(a.h, scale_factor)
      m == [name |-> "rescale", scale_factor |-> scale_factor,
            new_w |-> nw, new_h |-> nh]
  IN IF nw <= 0 \/ nh <= 0
     THEN \* cv2.resize asserts that dsize is not empty
          [heap |-> hp, ret |-> Raise("cv2.error"), meta |-> m]
     ELSE [heap |-> Alloc(hp, Resized(hp, a, nh, nw)),
           ret |-> Ok(Array(NewId(hp), nh, nw, a.dtype, FALSE)),
           meta |-> m]

CallRescale ==
  /\ pc = "ready"
  /\ \E s1 \in 1..MaxSize, s2 \in 1..MaxSize :
       Return("imrescale", [name |-> "rescale", scale |-> <<s1, s2>>],
              imrescale(heap, img, <<s1, s2>>))

\* ---------------------------------------------------- imnormalize, imdenormalize
\* Fault: astype(dtype, copy=False), which hands back the array itself when
\* it has the dtype already.
AsTypeNoCopy(hp, a, dtype) ==
  IF a.dtype = dtype
  THEN [heap |-> hp, arr |-> a]
  ELSE [heap |-> Alloc(hp, Contents(hp, a)),
        arr |-> Array(NewId(hp), a.h, a.w, dtype, FALSE)]

\* ndarray.astype(dtype): copy defaults to True, so the result is always a
\* newly allocated array, also when the dtype is unchanged.
AsType(hp, a, dtype) ==
  [heap |-> Alloc(hp, Contents(hp, a)),
   arr |-> Array(NewId(hp), a.h, a.w, dtype, FALSE)]

Vec(v) == [k \in 1..Channels |-> <<v[k], 1>>]

\* The value of an elementwise expression over a, f[x, k] being its value
\* for element x of channel k: a new float64 array.
Elementwise(hp, a, f) ==
  [heap |-> Alloc(hp, [pix |-> [p \in Coords(a.h, a.w) |->
                                  [k \in 1..Channels |-> f[At(hp, a, p[1], p[2])[k], k]]],
                       ops |-> hp[a.buf].ops]),
   arr |-> Array(NewId(hp), a.h, a.w, "float64", FALSE)]

\* The elements an array can hold at a call.
Elements(hp, a) == {hp[a.buf].pix[p][k] : p \in DOMAIN hp[a.buf].pix, k \in 1..Channels}

\* img /= 255.0: an in-place update of img's own storage.
DivideInPlace(hp, a) ==
  [hp EXCEPT ![a.buf] =
     [pix |-> [p \in DOMAIN hp[a.buf].pix |->
                 [k \in 1..Channels |-> RatDiv(hp[a.buf].pix[p][k], <<255, 1>>)]],
      ops |-> hp[a.buf].ops]]

imnormalize(hp, a, mean, std) ==
  LET sub == [x \in Elements(hp, a), k \in 1..Channels |->
                RatDiv(RatSub(x, Vec(mean)[k]), Vec(std)[k])]
      e == Elementwise(hp, a, sub)            \* img = (img - mean) / std
      h2 == DivideInPlace(e.heap, e.arr)      \* img /= 255.0
      r == AsType(h2, e.arr, "float32")       \* img.astype(np.float32)
  IN [heap |-> r.heap, ret |-> Ok(r.arr), meta |-> NoMeta]

imdenormalize(hp, a, mean, std) ==
  LET mul == [x \in Elements(hp, a), k \in 1..Channels |->
                RatAdd(RatMul(x, Vec(std)[k]), Vec(mean)[k])]
      e == Elementwise(hp, a, mul)            \* img = norm_img * std + mean
      r == AsType(e.heap, e.arr, "float32")   \* img.astype(np.float32)
  IN [heap |-> r.heap, ret |-> Ok(r.arr), meta |-> NoMeta]

\* Per-channel means and (nonzero) standard deviations.
Means == {<<0, 0, 0>>, <<120, 110, 100>>}
Stds == {<<1, 1, 1>>, <<60, 50, 40>>}

CallNormalize ==
  /\ pc = "ready"
  /\ \E mean \in Means, std \in Stds :
       Return("imnormalize", [name |-> "norm", mean |-> mean, std |-> std],
              imnormalize(heap, img, mean, std))

\* The pipeline's inverse step: the normalized image is handed to
\* imdenormalize with the mean and std it was normalized with.
CallDenormalize ==
  /\ pc = "returned"
  /\ op = "imnormalize"
  /\ ret.kind = "ok"
  /\ LET r == imdenormalize(heap, ret.arr, arg.mean, arg.std)
     IN /\ pc' = "returned"
        /\ op' = "imdenormalize"
        /\ img' = ret.arr
        /\ input' = Contents(heap, ret.arr)
        /\ heap' = r.heap
        /\ ret' = r.ret
        /\ meta' = r.meta
        /\ UNCHANGED <<arg, x0, cur, trace>>

\* -------------------------------------------------------------- random_expand
\* random.uniform(1, max_ratio), on the grid: the ratios k/RatioGrid in [1, max_ratio].
Ratios(max_ratio) == {Rat(k, RatioGrid) : k \in RatioGrid..RatInt(RatMul(max_ratio, <<RatioGrid, 1>>))}

\* int(n * ratio)
Expanded(n, ratio) == RatInt(RatMul(<<n, 1>>, ratio))

\* Fault: random.randint(0, o), an offset that can push the image off the canvas.
OffsetsBug(o, n) == 0..o

\* random.randint(0, o - n): both ends included.
Offsets(o, n) == 0..(o - n)

\* The call with its random draws ratio_x, ratio_y (unused when keep_ratio),
\* off_y and off_x given.
random_expand(hp, a, max_ratio, keep_ratio, ratio_x, ratio_y0, off_y, off_x) ==
  IF RatLeq(max_ratio, <<1, 1>>)
  THEN [heap |-> hp, ret |-> Ok(a),
        meta |-> [name |-> "expand", off_x |-> 0, off_y |-> 0,
                  new_w |-> a.w, new_h |-> a.h]]
  ELSE
    LET ratio_y == IF keep_ratio THEN ratio_x ELSE ratio_y0
        oh == Expanded(a.h, ratio_y)
        ow == Expanded(a.w, ratio_x)
        id == NewId(hp)
        h1 == Alloc(hp, Zeros(oh, ow))        \* dst = np.zeros(shape=(oh, ow, c))
        nr == SliceLen(off_y, off_y + a.h, oh)
        nc == SliceLen(off_x, off_x + a.w, ow)
    IN IF Broadcastable(a.h, a.w, nr, nc)
       THEN [heap |-> SetSlice(h1, id, Min(off_y, oh), Min(off_x, ow), nr, nc, a),
             ret |-> Ok(Array(id, oh, ow, "float64", FALSE)),
             meta |-> [name |-> "expand", off_x |-> off_x, off_y |-> off_y,
                       new_w |-> ow, new_h |-> oh]]
       ELSE [heap |-> h1, ret |-> Raise("ValueError"), meta |-> NoMeta]

\* max_ratio values on the grid, from 1/RatioGrid to 2 (the default).
MaxRatios == {Rat(k, RatioGrid) : k \in 1..(2 * RatioGrid)}

CallRandomExpand ==
  /\ pc = "ready"
  /\ \E max_ratio \in MaxRatios, keep_ratio \in BOOLEAN :
       LET a == [name |-> "expand", max_ratio |-> max_ratio, keep_ratio |-> keep_ratio]
       IN IF RatLeq(max_ratio, <<1, 1>>)
          THEN Return("random_expand", a,
                      random_expand(heap, img, max_ratio, keep_ratio,
                                    <<1, 1>>, <<1, 1>>, 0, 0))
          ELSE \E ratio_x \in Ratios(max_ratio) :
               \E ratio_y \in IF keep_ratio THEN {ratio_x} ELSE Ratios(max_ratio) :
                 \E off_y \in Offsets(Expanded(img.h, ratio_y), img.h),
                    off_x \in Offsets(Expanded(img.w, ratio_x), img.w) :
                   Return("random_expand", a,
                          random_expand(heap, img, max_ratio, keep_ratio,
                                        ratio_x, ratio_y, off_y, off_x))

\* ------------------------------------------------------- random_color_distort
\* An in-place photometric write (+=, *=) to src's storage, kept as a term:
\* the write's kind and the random amount drawn.
Write(hp, src, f, amount) ==
  [hp EXCEPT ![src.buf].ops = Append(@, [f |-> f, amount |-> amount])]

\* brightness(src, delta): src += uniform(-delta, delta) when applied.
brightness(hp, src, applied, amount) ==
  IF applied THEN [heap |-> Write(hp, src, "brightness", amount), arr |-> src]
  ELSE [heap |-> hp, arr |-> src]

\* contrast(src, low, high): src *= uniform(low, high) when applied.
contrast(hp, src, applied, amount) ==
  IF applied THEN [heap |-> Write(hp, src, "contrast", amount), arr |-> src]
  ELSE [heap |-> hp, arr |-> src]

\* saturation(src, low, high): src *= alpha; src += gray when applied (gray is
\* a temporary computed from src, dropped on return).
saturation(hp, src, applied, amount) ==
  IF applied THEN [heap |-> Write(hp, src, "saturation", amount), arr |-> src]
  ELSE [heap |-> hp, arr |-> src]

\* hue(src, delta): src = np.dot(src, t) when applied: a new array.
hue(hp, src, applied, amount) ==
  IF applied
  THEN LET h1 == Alloc(hp, Contents(hp, src))
           new == Array(NewId(hp), src.h, src.w, "float64", FALSE)
       IN [heap |-> Write(h1, new, "hue", amount), arr |-> new]
  ELSE [heap |-> hp, arr |-> src]

\* The default parameters (line 21-22).
DistortArg ==
  [name |-> "distort", brightness_delta |-> 32,
   contrast_low |-> <<1, 2>>, contrast_high |-> <<3, 2>>,
   saturation_low |-> <<1, 2>>, saturation_high |-> <<3, 2>>, hue_delta |-> 18]

\* The random amounts drawn: the two ends of each uniform range.
Amounts(f) ==
  CASE f = "brightness" -> {<<-DistortArg.brightness_delta, 1>>, <<DistortArg.brightness_delta, 1>>}
    [] f = "contrast" -> {DistortArg.contrast_low, DistortArg.contrast_high}
    [] f = "saturation" -> {DistortArg.saturation_low, DistortArg.saturation_high}
    [] f = "hue" -> {<<-DistortArg.hue_delta, 1>>, <<DistortArg.hue_delta, 1>>}

\* Fault: the else branch calls saturation, contrast, hue.
StmtBug(line) ==
  CASE line = "L101" -> "brightness"
    [] line = "L105" -> "contrast"
    [] line = "L106" -> "saturation"
    [] line = "L107" -> "hue"
    [] line = "L109" -> "saturation"
    [] line = "L110" -> "contrast"
    [] line = "L111" -> "hue"
    [] OTHER -> "none"

\* The sub-transform each line of the body calls.
Stmt(line) ==
  CASE line = "L101" -> "brightness"
    [] line = "L105" -> "contrast"
    [] line = "L106" -> "saturation"
    [] line = "L107" -> "hue"
    [] line = "L109" -> "saturation"
    [] line = "L110" -> "hue"
    [] line = "L111" -> "contrast"
    [] OTHER -> "none"

\* The line control reaches after a line.
Succ(line) ==
  CASE line = "L101" -> "L104"
    [] line = "L105" -> "L106"
    [] line = "L106" -> "L107"
    [] line = "L107" -> "L112"
    [] line = "L109" -> "L110"
    [] line = "L110" -> "L111"
    [] line = "L111" -> "L112"
    [] OTHER -> "none"

\* Line 98: src = src.astype('float32')
DistortBegin ==
  /\ pc = "ready"
  /\ LET r == AsType(heap, img, "float32")
     IN /\ heap' = r.heap
        /\ cur' = r.arr
  /\ pc' = "L101"
  /\ op' = "random_color_distort"
  /\ arg' = DistortArg
  /\ UNCHANGED <<img, input, x0, trace, ret, meta>>

\* One sub-transform call: src = f(src, ...), with its own uniform draw
\* deciding whether it applies.
Attempt(f, r, applied) ==
  /\ heap' = r.heap
  /\ cur' = r.arr
  /\ trace' = Append(trace, [f |-> f, applied |-> applied])
  /\ pc' = Succ(pc)
  /\ UNCHANGED <<op, arg, img, input, x0, ret, meta>>

Brightness(applied) ==
  /\ Stmt(pc) = "brightness"
  /\ \E amount \in IF applied THEN Amounts("brightness") ELSE {<<0, 1>>} :
       Attempt("brightness", brightness(heap, cur, applied, amount), applied)

Contrast(applied) ==
  /\ Stmt(pc) = "contrast"
  /\ \E amount \in IF applied THEN Amounts("contrast") ELSE {<<0, 1>>} :
       Attempt("contrast", contrast(heap, cur, applied, amount), applied)

Saturation(applied) ==
  /\ Stmt(pc) = "saturation"
  /\ \E amount \in IF applied THEN Amounts("saturation") ELSE {<<0, 1>>} :
       Attempt("saturation", saturation(heap, cur, applied, amount), applied)

Hue(applied) ==
  /\ Stmt(pc) = "hue"
  /\ \E amount \in IF applied THEN Amounts("hue") ELSE {<<0, 1>>} :
       Attempt("hue", hue(heap, cur, applied, amount), applied)

\* Line 104: if np.random.randint(0, 2)
ChooseOrder ==
  /\ pc = "L104"
  /\ \E first \in {"L105", "L109"} : pc' = first
  /\ UNCHANGED <<op, arg, img, input, x0, heap, cur, trace, ret, meta>>

\* Line 112: return src
DistortReturn ==
  /\ pc = "L112"
  /\ pc' = "returned"
  /\ ret' = Ok(cur)
  /\ UNCHANGED <<op, arg, img, input, x0, heap, cur, trace, meta>>

\* --------------------------------------------------------------- the caller
\* A value no transform produces from an image in [0, 255].
Sentinel == [k \in 1..Channels |-> <<-1, 1>>]

\* After the call the caller writes element [0, 0, :] of the result in place.
CallerWrite ==
  /\ pc = "returned"
  /\ ret.kind = "ok"
  /\ LET a == ret.arr
         p == <<0, IF a.rev THEN a.w - 1 ELSE 0>>
     IN heap' = [heap EXCEPT ![a.buf].pix[p] = Sentinel]
  /\ pc' = "written"
  /\ UNCHANGED <<op, arg, img, input, x0, cur, trace, ret, meta>>

Next ==
  \/ CallFlip
  \/ CallPadToSquare
  \/ CallPadToMultiple
  \/ CallRescale
  \/ CallNormalize
  \/ CallDenormalize
  \/ CallRandomExpand
  \/ DistortBegin
  \/ \E applied \in BOOLEAN : Brightness(applied)
  \/ ChooseOrder
  \/ \E applied \in BOOLEAN : Contrast(applied)
  \/ \E applied \in BOOLEAN : Saturation(applied)
  \/ \E applied \in BOOLEAN : Hue(applied)
  \/ DistortReturn
  \/ CallerWrite

Spec == Init /\ [][Next]_vars

\* ===================================================================== claims
Done(name) == pc = "returned" /\ op = name

\* |a - b| <= 1/1000: equal up to float32 rounding of values in [0, 255].
Close(a, b) == LET d == RatSub(a, b) IN Abs(d[1]) * 1000 <= d[2]

\* The array r holds the source src (contents s) at its top-left corner and
\* zeros everywhere else.
TopLeftZeroPadded(r, src, s) ==
  /\ DOMAIN heap[r.buf].pix = Coords(r.h, r.w)
  /\ \A p \in Coords(r.h, r.w) :
       At(heap, r, p[1], p[2]) =
         IF p[1] < src.h /\ p[2] < src.w THEN s.pix[p] ELSE ZeroPixel

\* C1: imdenormalize applied to the result of imnormalize with the same mean
\* and std gives back the image, up to rounding.
C1_RoundTrip ==
  Done("imdenormalize") =>
    /\ ret.kind = "ok"
    /\ DOMAIN x0.pix = Coords(ret.arr.h, ret.arr.w)
    /\ \A p \in DOMAIN x0.pix : \A k \in 1..Channels :
         Close(At(heap, ret.arr, p[1], p[2])[k], x0.pix[p][k])

\* C2: impad_to_square ends in an error, and returns no image, whenever the
\* image's height or its width exceeds pad_size.
C2_PadToSquareRejectsOversize ==
  (Done("impad_to_square") /\ (img.h > arg.pad_size \/ img.w > arg.pad_size)) =>
    ret = Raise("ValueError")

C2_Witness ==
  /\ Done("impad_to_square")
  /\ img.h > arg.pad_size
  /\ img.w <= arg.pad_size
  /\ ret.kind = "ValueError"

\* C3 as stated: the returned scale factor is min(Hmax/max(h,w), Wmax/min(h,w))
\* for the box (Hmax, Wmax), and the output fits: height <= Hmax, width <= Wmax.
C3_ScaleFactorHeightWidth ==
  (Done("imrescale") /\ ret.kind = "ok") =>
    /\ meta.scale_factor = RatMin(Rat(arg.scale[1], Max(img.h, img.w)),
                                  Rat(arg.scale[2], Min(img.h, img.w)))
    /\ ret.arr.h <= arg.scale[1]
    /\ ret.arr.w <= arg.scale[2]

\* C3 amended: the returned scale factor is the largest factor f with
\* f * max(h,w) <= max(Hmax,Wmax) and f * min(h,w) <= min(Hmax,Wmax); the
\* output edges are the input edges times it, rounded half up; the longer
\* output edge is <= max(Hmax,Wmax) and the shorter <= min(Hmax,Wmax).
C3_ScaleFactorLongShort ==
  (Done("imrescale") /\ ret.kind = "ok") =>
    LET long == Max(arg.scale[1], arg.scale[2])
        short == Min(arg.scale[1], arg.scale[2])
        n == meta.scale_factor[1]
        d == meta.scale_factor[2]
        fitsLong == n * Max(img.h, img.w) <= long * d
        fitsShort == n * Min(img.h, img.w) <= short * d
        tight == n * Max(img.h, img.w) = long * d \/ n * Min(img.h, img.w) = short * d
        rounded(e, x) == 2 * e * d <= 2 * x * n + d /\ 2 * x * n + d < 2 * (e + 1) * d
    IN /\ d > 0 /\ n > 0
       /\ fitsLong /\ fitsShort /\ tight
       /\ rounded(ret.arr.h, img.h) /\ rounded(ret.arr.w, img.w)
       /\ Max(ret.arr.h, ret.arr.w) <= long
       /\ Min(ret.arr.h, ret.arr.w) <= short

\* A tall image in a wide box: the output is taller than Hmax.
C3_Witness ==
  /\ Done("imrescale") /\ ret.kind = "ok"
  /\ arg.scale[1] < arg.scale[2]
  /\ img.h > img.w
  /\ ret.arr.h > arg.scale[1]

\* C4: random_expand's metadata places the image inside the canvas when
\* max_ratio > 1, for every random outcome; when max_ratio <= 1 the metadata
\* is (0, 0, w, h) and the image returned is the input, unchanged.
C4_ExpansionContainment ==
  Done("random_expand") =>
    /\ ret.kind = "ok"
    /\ meta.name = "expand"
    /\ IF RatLeq(arg.max_ratio, <<1, 1>>)
       THEN /\ <<meta.off_x, meta.off_y, meta.new_w, meta.new_h>> = <<0, 0, img.w, img.h>>
            /\ ret.arr = img
            /\ Contents(heap, ret.arr) = input
       ELSE /\ 0 <= meta.off_x /\ meta.off_x + img.w <= meta.new_w
            /\ 0 <= meta.off_y /\ meta.off_y + img.h <= meta.new_h

C4_Witness ==
  /\ Done("random_expand")
  /\ ~RatLeq(arg.max_ratio, <<1, 1>>)
  /\ ~arg.keep_ratio
  /\ meta.off_x > 0 /\ meta.off_x + img.w = meta.new_w
  /\ meta.off_y = 0 /\ meta.off_y + img.h < meta.new_h

\* C5: impad_to_multiple returns an image whose height and width are the
\* smallest multiples of the divisor >= the input's, holding the source at
\* the top-left corner and zeros elsewhere.
C5_PadToMultiple ==
  Done("impad_to_multiple") =>
    LET d == arg.divisor
        least(m, n) == m % d = 0 /\ m >= n /\ m - d < n
    IN /\ ret.kind = "ok"
       /\ least(ret.arr.h, img.h)
       /\ least(ret.arr.w, img.w)
       /\ ret.arr.c = img.c
       /\ TopLeftZeroPadded(ret.arr, img, input)

\* The height is already a multiple of the divisor, the width is not.
C5_Witness ==
  /\ Done("impad_to_multiple")
  /\ arg.divisor > 1
  /\ img.h = arg.divisor /\ ret.arr.h = img.h
  /\ img.w % arg.divisor # 0 /\ ret.arr.w > img.w

\* C6: impad_to_square of an image that fits returns a (size, size, C) array
\* with the source at [0:h, 0:w, :] and zeros elsewhere.
C6_PadToSquare ==
  (Done("impad_to_square") /\ img.h <= arg.pad_size /\ img.w <= arg.pad_size) =>
    /\ ret.kind = "ok"
    /\ <<ret.arr.h, ret.arr.w, ret.arr.c>> = <<arg.pad_size, arg.pad_size, img.c>>
    /\ TopLeftZeroPadded(ret.arr, img, input)

C6_Witness ==
  /\ Done("impad_to_square")
  /\ img.h < arg.pad_size /\ img.w < arg.pad_size /\ img.h # img.w
  /\ ret.kind = "ok"

\* C7: in every call of random_color_distort brightness is attempted first,
\* then contrast, saturation and hue in one of the orders
\* contrast->saturation->hue or saturation->hue->contrast; each is attempted
\* once per call, and at each attempt both outcomes (applied, skipped) are
\* possible whatever the earlier attempts decided; the result has received
\* exactly the writes of the sub-transforms that applied, once each.
IsPrefix(s, t) == Len(s) <= Len(t) /\ \A n \in 1..Len(s) : s[n] = t[n]

Attempted == [n \in 1..Len(trace) |-> trace[n].f]

\* The sub-transforms that applied, in the order of their attempts.
AppliedOnce ==
  LET Applied(e) == e.applied
      t == SelectSeq(trace, Applied)
  IN [n \in 1..Len(t) |-> t[n].f]

C7_DistortOrder ==
  op = "random_color_distort" =>
    /\ \/ IsPrefix(Attempted, <<"brightness", "contrast", "saturation", "hue">>)
       \/ IsPrefix(Attempted, <<"brightness", "saturation", "hue", "contrast">>)
    /\ pc \in {"L112", "returned", "written"} =>
         /\ Len(trace) = 4
         /\ [n \in 1..Len(heap[cur.buf].ops) |-> heap[cur.buf].ops[n].f] = AppliedOnce
    /\ pc = "L101" => trace = <<>>
    /\ Stmt(pc) = "brightness" => ENABLED Brightness(TRUE) /\ ENABLED Brightness(FALSE)
    /\ Stmt(pc) = "contrast" => ENABLED Contrast(TRUE) /\ ENABLED Contrast(FALSE)
    /\ Stmt(pc) = "saturation" => ENABLED Saturation(TRUE) /\ ENABLED Saturation(FALSE)
    /\ Stmt(pc) = "hue" => ENABLED Hue(TRUE) /\ ENABLED Hue(FALSE)

\* A call that took the second order, skipping brightness and hue and
\* applying saturation and contrast.
C7_Witness ==
  /\ Done("random_color_distort")
  /\ trace = <<[f |-> "brightness", applied |-> FALSE],
               [f |-> "saturation", applied |-> TRUE],
               [f |-> "hue", applied |-> FALSE],
               [f |-> "contrast", applied |-> TRUE]>>

\* C8 as stated: every transform returns a newly allocated array, never its
\* input nor a view of it, so a later write to the result leaves the input alone.
Transforms ==
  {"img_flip", "random_expand", "imrescale", "impad_to_square",
   "impad_to_multiple", "imnormalize", "imdenormalize"}

Aliasing ==
  \/ op = "img_flip"
  \/ op = "random_expand" /\ RatLeq(arg.max_ratio, <<1, 1>>)

C8_EveryTransformAllocates ==
  (pc \in {"returned", "written"} /\ op \in Transforms /\ ret.kind = "ok") =>
    /\ ret.arr.buf # img.buf
    /\ pc = "written" => Contents(heap, img) = input

\* C8 amended: impad_to_square, impad_to_multiple, imrescale, imnormalize,
\* imdenormalize, and random_expand with max_ratio > 1 return a newly
\* allocated array, and a later write to it leaves the input alone; img_flip
\* returns a view of its input's storage and random_expand with
\* max_ratio <= 1 returns its input array itself.
C8_TransformsAllocateExceptFlipAndIdentityExpand ==
  (pc \in {"returned", "written"} /\ op \in Transforms /\ ret.kind = "ok") =>
    IF Aliasing
    THEN /\ ret.arr.buf = img.buf
         /\ op = "random_expand" => ret.arr = img
         /\ pc = "written" => Contents(heap, img) # input
    ELSE /\ ret.arr.buf # img.buf
         /\ ret.arr.buf = Len(heap)
         /\ pc = "written" => Contents(heap, img) = input

\* The padded image has the shape of the input and still is another array.
C8_Witness ==
  /\ pc = "written"
  /\ op = "impad_to_multiple"
  /\ <<ret.arr.h, ret.arr.w>> = <<img.h, img.w>>
  /\ ret.arr.buf # img.buf

\* C9: imrescale computes an output size with width >= 1 and height >= 1 for
\* every image with h, w >= 1 and every target box of positive integers.
C9_RescaledSizePositive ==
  Done("imrescale") => meta.new_w >= 1 /\ meta.new_h >= 1

\* C10: no transform changes the contents of the caller's input array, at
\* any point of the call: random_color_distort writes only to its own
\* float32 copy, imnormalize only to a fresh array.
C10_InputUnchanged ==
  pc # "written" => heap[img.buf] = input /\ Contents(heap, img) = input

\* A float32 input whose distortion applied all the in-place writes.
C10_Witness ==
  /\ Done("random_color_distort")
  /\ img.dtype = "float32"
  /\ \A n \in 1..Len(trace) : trace[n].applied
  /\ Len(heap[ret.arr.buf].ops) = 4
  /\ heap[img.buf].ops = <<>>

====
